---- MODULE Spec2Model ----
(***************************************************************************)
(* Interval-set algebra of quenbyako/ext, package span (edge-aware         *)
(* version): Edge, Bound and Span over a totally ordered domain, with the  *)
(* comparator cmp.Compare and the successor nextInt.                       *)
(*                                                                         *)
(* Domain values are naturals.  grid = 1 is an integer domain (every value *)
(* of 0..MaxVal may be an edge); grid = 2 is a domain whose successor      *)
(* never reaches the next edge value in one step (math.Nextafter on floats *)
(* that are more than one ulp apart: values are counted in ulps and the    *)
(* edges drawn are two ulps apart), i.e. a dense domain.                   *)
(***************************************************************************)
EXTENDS Integers, Sequences, FiniteSets, TLC

\* ------------------------------------------------------------------ bounds
MaxVal == 3
\* the longest string handed to ParseBound
MaxLen == 5

VARIABLES
    s,      \* the Span the caller holds: span.bounds, a sequence of Bounds
    z,      \* the Span returned by the call in progress (op # "none")
    op,     \* the method called on s: "none" when no call is pending
    arg,    \* the argument of the call: <<b>> for a Bound, o.Bounds() for a Span
    grid,   \* spacing of the edge values the caller uses (1: integers, 2: dense)
    cmpf,   \* span.cmp, the comparator s was built with: "Compare" or "Sub"
    mem,    \* the backing arrays: whether z.bounds shares the array of
            \* s.bounds, and the Span the last method was called on
    a, b, c, \* the Bound operands of a Bound-level call or of New
    nx,     \* the next function handed to a Bound-level call: "nextInt" or "nil"
    fn,     \* the Bound-level function called: "none" before the call
    out     \* what the Bound-level call returned

vars == <<s, z, op, arg, grid, cmpf, mem, a, b, c, nx, fn, out>>

spanVars == <<s, z, op, arg, grid, cmpf, mem>>
boundVars == <<a, b, c, nx, fn, out>>

\* ------------------------------------------------------------------ Edge

\* cmp.Compare on an ordered type
Cmp(x, y) == IF x < y THEN -1 ELSE IF x > y THEN 1 ELSE 0

newEdge(v, i) == [Value |-> v, Included |-> i]

\* Mutant of nextInt: the successor jumps straight to the target.
nextIntJump(v, t) == t

nextInt(v, t) == IF v = t THEN v ELSE IF v < t THEN v + 1 ELSE v - 1

\* Mutant of IsEdgeNear: the successor rule forgets the inclusion flags.
IsEdgeNearAnyFlags(next, lower, higher) ==
    IF Cmp(lower.Value, higher.Value) = 0 /\ (lower.Included \/ higher.Included)
    THEN TRUE
    ELSE next # "nil" /\ Cmp(nextInt(lower.Value, higher.Value), higher.Value) >= 0

IsEdgeNear(next, lower, higher) ==
    IF Cmp(lower.Value, higher.Value) = 0 /\ (lower.Included \/ higher.Included)
    THEN TRUE
    ELSE IF /\ next # "nil"
            /\ lower.Included
            /\ higher.Included
            /\ Cmp(nextInt(lower.Value, higher.Value), higher.Value) >= 0
         THEN TRUE
         ELSE FALSE

\* Mutant of minEdge: on equal values the first edge is returned as it is.
minEdgeFirst(x, y) ==
    IF Cmp(x.Value, y.Value) > 0 THEN y ELSE x

minEdge(x, y) ==
    LET compared == Cmp(x.Value, y.Value) IN
    IF compared > 0 THEN y
    ELSE IF compared < 0 THEN x
    ELSE newEdge(x.Value, x.Included \/ y.Included)

maxEdge(x, y) ==
    LET compared == Cmp(x.Value, y.Value) IN
    IF compared > 0 THEN x
    ELSE IF compared < 0 THEN y
    ELSE newEdge(x.Value, x.Included \/ y.Included)

\* ------------------------------------------------------------------ Bound

\* What a panicking constructor leaves in place of a Bound.
PanicBound == [Lo |-> newEdge(-1, FALSE), Hi |-> newEdge(-1, FALSE)]

\* Mutant of NewBoundEdgesFunc: a single-point bound is refused only when
\* both of its edges are excluded.
NewBoundEdgesFuncLax(lo, hi) ==
    LET compared == Cmp(lo.Value, hi.Value) IN
    IF compared > 0 THEN PanicBound
    ELSE IF compared = 0 /\ (~lo.Included /\ ~hi.Included) THEN PanicBound
    ELSE [Lo |-> lo, Hi |-> hi]

NewBoundEdgesFunc(lo, hi) ==
    LET compared == Cmp(lo.Value, hi.Value) IN
    IF compared > 0 THEN PanicBound
    ELSE IF compared = 0 /\ (~lo.Included \/ ~hi.Included) THEN PanicBound
    ELSE [Lo |-> lo, Hi |-> hi]

\* NewBoundEdgesFunc(lo, hi, cmp) with the comparator as an operand: "nil",
\* or "Compare" for cmp.Compare.
NewBoundEdgesFuncCmp(lo, hi, cmp) ==
    IF cmp = "nil" THEN PanicBound ELSE NewBoundEdgesFunc(lo, hi)

NewBoundEdges(lo, hi) == NewBoundEdgesFuncCmp(lo, hi, "Compare")

NewBound(loIncluded, lo, hi, hiIncluded) ==
    NewBoundEdgesFunc(newEdge(lo, loIncluded), newEdge(hi, hiIncluded))

\* Mutant of Contains: equal edge values count as within, whatever the
\* inclusion flags.
ContainsAnyFlags(x, y) ==
    LET locmp == Cmp(x.Lo.Value, y.Lo.Value)
        hicmp == Cmp(x.Hi.Value, y.Hi.Value)
    IN locmp <= 0 /\ hicmp >= 0

Contains(x, y) ==
    LET locmp == Cmp(x.Lo.Value, y.Lo.Value)
        hicmp == Cmp(x.Hi.Value, y.Hi.Value)
        startWithinA == locmp < 0 \/ (locmp = 0 /\ (x.Lo.Included \/ y.Lo.Included = x.Lo.Included))
        endWithinA == hicmp > 0 \/ (hicmp = 0 /\ (x.Hi.Included \/ y.Hi.Included = x.Hi.Included))
    IN startWithinA /\ endWithinA

\* Mutant of Overlaps: bounds that meet in a single edge value are apart,
\* whatever the inclusion flags.
OverlapsStrict(x, y) ==
    LET lohicmp == Cmp(x.Lo.Value, y.Hi.Value)
        hilocmp == Cmp(x.Hi.Value, y.Lo.Value)
    IN ~(hilocmp <= 0) /\ ~(lohicmp >= 0)

Overlaps(x, y) ==
    LET lohicmp == Cmp(x.Lo.Value, y.Hi.Value)
        hilocmp == Cmp(x.Hi.Value, y.Lo.Value)
        bTooLow == lohicmp > 0 \/ (lohicmp = 0 /\ (~x.Lo.Included \/ x.Lo.Included # y.Hi.Included))
        bTooHigh == hilocmp < 0 \/ (hilocmp = 0 /\ (~x.Hi.Included \/ x.Hi.Included # y.Lo.Included))
    IN ~bTooHigh /\ ~bTooLow

\* Mutant of Position: the inclusion flags of the edges are not looked at.
PositionClosed(x, i) ==
    LET locmp == Cmp(x.Lo.Value, i)
        hicmp == Cmp(x.Hi.Value, i)
    IN IF locmp > 0 THEN 1
       ELSE IF hicmp < 0 THEN -1
       ELSE 0

Position(x, i) ==
    LET locmp == Cmp(x.Lo.Value, i)
        hicmp == Cmp(x.Hi.Value, i)
    IN IF locmp > 0 \/ (locmp = 0 /\ ~x.Lo.Included) THEN 1
       ELSE IF hicmp < 0 \/ (hicmp = 0 /\ ~x.Hi.Included) THEN -1
       ELSE 0

\* The comparator calls Position makes, in order: cmp(x.Lo.Value, i) and
\* cmp(x.Hi.Value, i), whatever the first one returns.
PositionCalls(x, i) == << <<x.Lo.Value, i>>, <<x.Hi.Value, i>> >>

\* Mutant of Difference: the piece below y is built in the same way when the
\* lower edge values are equal.
DifferenceNoEqualCase(x, y) ==
    LET blo == y.Lo
        bhi == y.Hi
        locmp == Cmp(blo.Value, x.Lo.Value)
        hicmp == Cmp(bhi.Value, x.Hi.Value)
        lower ==
            IF locmp >= 0
            THEN <<NewBoundEdgesFunc(x.Lo, newEdge(blo.Value, ~blo.Included))>>
            ELSE <<>>
        upper ==
            IF hicmp = 0
            THEN IF x.Hi.Included /\ ~bhi.Included
                 THEN <<NewBoundEdgesFunc(newEdge(x.Hi.Value, TRUE), newEdge(x.Hi.Value, TRUE))>>
                 ELSE <<>>
            ELSE IF hicmp < 0
                 THEN <<NewBoundEdgesFunc(newEdge(bhi.Value, ~bhi.Included), x.Hi)>>
                 ELSE <<>>
    IN IF Contains(y, x) THEN <<>>
       ELSE IF ~Overlaps(x, y) THEN <<x>>
       ELSE lower \o upper

\* Mutant of Difference: the piece above y starts with the inclusion flag of
\* y's upper edge instead of its complement.
DifferenceSameFlag(x, y) ==
    LET blo == y.Lo
        bhi == y.Hi
        locmp == Cmp(blo.Value, x.Lo.Value)
        hicmp == Cmp(bhi.Value, x.Hi.Value)
        lower ==
            IF locmp = 0
            THEN IF x.Lo.Included /\ ~blo.Included
                 THEN <<NewBoundEdgesFunc(newEdge(x.Lo.Value, TRUE), newEdge(x.Lo.Value, TRUE))>>
                 ELSE <<>>
            ELSE IF locmp > 0
                 THEN <<NewBoundEdgesFunc(x.Lo, newEdge(blo.Value, ~blo.Included))>>
                 ELSE <<>>
        upper ==
            IF hicmp = 0
            THEN IF x.Hi.Included /\ ~bhi.Included
                 THEN <<NewBoundEdgesFunc(newEdge(x.Hi.Value, TRUE), newEdge(x.Hi.Value, TRUE))>>
                 ELSE <<>>
            ELSE IF hicmp < 0
                 THEN <<NewBoundEdgesFunc(newEdge(bhi.Value, bhi.Included), x.Hi)>>
                 ELSE <<>>
    IN IF Contains(y, x) THEN <<>>
       ELSE IF ~Overlaps(x, y) THEN <<x>>
       ELSE lower \o upper

Difference(x, y) ==
    LET blo == y.Lo
        bhi == y.Hi
        locmp == Cmp(blo.Value, x.Lo.Value)
        hicmp == Cmp(bhi.Value, x.Hi.Value)
        lower ==
            IF locmp = 0
            THEN IF x.Lo.Included /\ ~blo.Included
                 THEN <<NewBoundEdgesFunc(newEdge(x.Lo.Value, TRUE), newEdge(x.Lo.Value, TRUE))>>
                 ELSE <<>>
            ELSE IF locmp > 0
                 THEN <<NewBoundEdgesFunc(x.Lo, newEdge(blo.Value, ~blo.Included))>>
                 ELSE <<>>
        upper ==
            IF hicmp = 0
            THEN IF x.Hi.Included /\ ~bhi.Included
                 THEN <<NewBoundEdgesFunc(newEdge(x.Hi.Value, TRUE), newEdge(x.Hi.Value, TRUE))>>
                 ELSE <<>>
            ELSE IF hicmp < 0
                 THEN <<NewBoundEdgesFunc(newEdge(bhi.Value, ~bhi.Included), x.Hi)>>
                 ELSE <<>>
    IN IF Contains(y, x) THEN <<>>
       ELSE IF ~Overlaps(x, y) THEN <<x>>
       ELSE lower \o upper

\* Mutant of UnionBounds: the right join (y below x) is missing.
UnionBoundsLeftJoin(next, x, y) ==
    LET alo == x.Lo
        ahi == x.Hi
        blo == y.Lo
        bhi == y.Hi
    IN IF Contains(x, y) THEN [bound |-> NewBoundEdgesFunc(x.Lo, x.Hi), ok |-> TRUE]
       ELSE IF Contains(y, x) THEN [bound |-> NewBoundEdgesFunc(y.Lo, y.Hi), ok |-> TRUE]
       ELSE IF ~Overlaps(x, y)
            THEN IF Cmp(ahi.Value, blo.Value) <= 0 /\ IsEdgeNear(next, ahi, blo)
                 THEN [bound |-> NewBoundEdgesFunc(alo, bhi), ok |-> TRUE]
                 ELSE [bound |-> x, ok |-> FALSE]
            ELSE [bound |-> NewBoundEdgesFunc(minEdge(alo, blo), maxEdge(ahi, bhi)), ok |-> TRUE]

\* Mutant of UnionBounds: when no merge is possible the lower of the two
\* bounds is returned.
UnionBoundsLower(next, x, y) ==
    LET alo == x.Lo
        ahi == x.Hi
        blo == y.Lo
        bhi == y.Hi
    IN IF Contains(x, y) THEN [bound |-> NewBoundEdgesFunc(x.Lo, x.Hi), ok |-> TRUE]
       ELSE IF Contains(y, x) THEN [bound |-> NewBoundEdgesFunc(y.Lo, y.Hi), ok |-> TRUE]
       ELSE IF ~Overlaps(x, y)
            THEN IF Cmp(ahi.Value, blo.Value) <= 0 /\ IsEdgeNear(next, ahi, blo)
                 THEN [bound |-> NewBoundEdgesFunc(alo, bhi), ok |-> TRUE]
                 ELSE IF Cmp(bhi.Value, alo.Value) <= 0 /\ IsEdgeNear(next, bhi, alo)
                      THEN [bound |-> NewBoundEdgesFunc(blo, ahi), ok |-> TRUE]
                      ELSE [bound |-> IF Cmp(alo.Value, blo.Value) <= 0 THEN x ELSE y, ok |-> FALSE]
            ELSE [bound |-> NewBoundEdgesFunc(minEdge(alo, blo), maxEdge(ahi, bhi)), ok |-> TRUE]

\* UnionBounds returns (Bound, bool): the record [bound, ok].
UnionBounds(next, x, y) ==
    LET alo == x.Lo
        ahi == x.Hi
        blo == y.Lo
        bhi == y.Hi
    IN IF Contains(x, y) THEN [bound |-> NewBoundEdgesFunc(x.Lo, x.Hi), ok |-> TRUE]
       ELSE IF Contains(y, x) THEN [bound |-> NewBoundEdgesFunc(y.Lo, y.Hi), ok |-> TRUE]
       ELSE IF ~Overlaps(x, y)
            THEN IF Cmp(ahi.Value, blo.Value) <= 0 /\ IsEdgeNear(next, ahi, blo)
                 THEN [bound |-> NewBoundEdgesFunc(alo, bhi), ok |-> TRUE]
                 ELSE IF Cmp(bhi.Value, alo.Value) <= 0 /\ IsEdgeNear(next, bhi, alo)
                      THEN [bound |-> NewBoundEdgesFunc(blo, ahi), ok |-> TRUE]
                      ELSE [bound |-> x, ok |-> FALSE]
            ELSE [bound |-> NewBoundEdgesFunc(minEdge(alo, blo), maxEdge(ahi, bhi)), ok |-> TRUE]

\* ------------------------------------------------------------------ Span

\* The less function handed to sort.Slice by UnionBound.
less(x, y) == Cmp(x.Lo.Value, y.Lo.Value) = -1

\* sort.Slice is not stable: every ordering of the slice in which no element
\* is less than an earlier one is a result it may produce.
SortOutcomes(seq) ==
    LET n == Len(seq)
        ok(p) == \A i \in 1..n : \A j \in 1..n : i < j => ~less(seq[p[j]], seq[p[i]])
    IN { [i \in 1..n |-> seq[p[i]]] : p \in {q \in Permutations(1..n) : ok(q)} }

\* Mutant of UnionLoop: after the first merge the remaining bounds are kept
\* as they are.
RECURSIVE UnionLoopFirstOnly(_, _, _, _)
UnionLoopFirstOnly(next, existing, bound, newBounds) ==
    IF existing = <<>> THEN Append(newBounds, bound)
    ELSE LET u == UnionBounds(next, Head(existing), bound) IN
         IF u.ok THEN Append(newBounds \o Tail(existing), u.bound)
         ELSE UnionLoopFirstOnly(next, Tail(existing), bound, Append(newBounds, Head(existing)))

\* Mutant of UnionLoop: the continue after a merge is missing, so a merged
\* bound is kept as well.
RECURSIVE UnionLoopNoContinue(_, _, _, _)
UnionLoopNoContinue(next, existing, bound, newBounds) ==
    IF existing = <<>> THEN Append(newBounds, bound)
    ELSE LET u == UnionBounds(next, Head(existing), bound) IN
         IF u.ok THEN UnionLoopNoContinue(next, Tail(existing), u.bound, Append(newBounds, Head(existing)))
         ELSE UnionLoopNoContinue(next, Tail(existing), bound, Append(newBounds, Head(existing)))

\* The loop of UnionBound: the bounds kept, then the (grown) bound appended.
RECURSIVE UnionLoop(_, _, _, _)
UnionLoop(next, existing, bound, newBounds) ==
    IF existing = <<>> THEN Append(newBounds, bound)
    ELSE LET u == UnionBounds(next, Head(existing), bound) IN
         IF u.ok THEN UnionLoop(next, Tail(existing), u.bound, newBounds)
         ELSE UnionLoop(next, Tail(existing), bound, Append(newBounds, Head(existing)))

\* Mutant of UnionBound: the new bound list is returned unsorted.
UnionBoundUnsorted(next, bounds, bound) == {UnionLoop(next, bounds, bound, <<>>)}

\* span.UnionBound: the set of bound lists the call may return.
UnionBound(next, bounds, bound) == SortOutcomes(UnionLoop(next, bounds, bound, <<>>))

\* A comparator that honours the three-way contract by sign only, as
\* func(a, b int) int { return a - b } does.
CmpSub(x, y) == x - y

\* span.cmp, by the name of the comparator handed to New.
cmpOf(name, x, y) == IF name = "Sub" THEN CmpSub(x, y) ELSE Cmp(x, y)

\* The less function handed to sort.Slice by UnionBound, for a Span built
\* with the comparator of that name.
lessOf(name, x, y) == cmpOf(name, x.Lo.Value, y.Lo.Value) = -1

\* sort.Slice on a slice of at most 12 elements is an insertion sort
\* (insertionSortLessFunc): element i sinks while it is less than the element
\* before it.
RECURSIVE sink(_, _, _)
sink(name, seq, j) ==
    IF j > 1 /\ lessOf(name, seq[j], seq[j - 1])
    THEN sink(name, [seq EXCEPT ![j] = seq[j - 1], ![j - 1] = seq[j]], j - 1)
    ELSE seq

RECURSIVE insertionSort(_, _, _)
insertionSort(name, seq, i) ==
    IF i > Len(seq) THEN seq
    ELSE insertionSort(name, sink(name, seq, i), i + 1)

\* span.UnionBound on a Span built with the comparator of that name.  Every
\* other use of the comparator (Contains, Overlaps, Position, IsEdgeNear,
\* minEdge, maxEdge, NewBoundEdgesFunc) tests the sign of its result only.
UnionBoundOf(name, next, bounds, bound) ==
    insertionSort(name, UnionLoop(next, bounds, bound, <<>>), 2)

\* span.Union: z = s; for each bound of y: z = z.UnionBound(b).
RECURSIVE Union(_, _, _)
Union(next, bounds, y) ==
    IF y = <<>> THEN {bounds}
    ELSE UNION { Union(next, r, Tail(y)) : r \in UnionBound(next, bounds, Head(y)) }

\* Mutant of DifferenceLoop: the loop stops looking after the first bound it
\* has split, keeping the bounds behind it.
RECURSIVE DifferenceLoopBreak(_, _)
DifferenceLoopBreak(existing, y) ==
    IF existing = <<>> THEN <<>>
    ELSE LET existingBound == Head(existing) IN
         IF Contains(y, existingBound) THEN DifferenceLoopBreak(Tail(existing), y)
         ELSE IF Overlaps(existingBound, y) THEN Difference(existingBound, y) \o Tail(existing)
         ELSE <<existingBound>> \o DifferenceLoopBreak(Tail(existing), y)

RECURSIVE DifferenceLoop(_, _)
DifferenceLoop(existing, y) ==
    IF existing = <<>> THEN <<>>
    ELSE LET existingBound == Head(existing)
             rest == DifferenceLoop(Tail(existing), y)
         IN IF Contains(y, existingBound) THEN rest
            ELSE IF Overlaps(existingBound, y) THEN Difference(existingBound, y) \o rest
            ELSE <<existingBound>> \o rest

DifferenceBound(bounds, y) == DifferenceLoop(bounds, y)

RECURSIVE DifferenceSpan(_, _)
DifferenceSpan(bounds, y) ==
    IF y = <<>> THEN bounds
    ELSE DifferenceSpan(DifferenceBound(bounds, Head(y)), Tail(y))

\* slices.BinarySearchFunc(x, target, cmp) on the list cmps of the values
\* cmp(x[k], target): the binary search of the Go standard library.  Indices
\* are Go's (from 0); cmps[h + 1] is cmp(x[h], target).
RECURSIVE BinarySearchLoop(_, _, _)
BinarySearchLoop(cmps, i, j) ==
    IF i < j
    THEN LET h == (i + j) \div 2 IN
         IF cmps[h + 1] < 0 THEN BinarySearchLoop(cmps, h + 1, j)
         ELSE BinarySearchLoop(cmps, i, h)
    ELSE i

BinarySearchFunc(cmps) ==
    LET n == Len(cmps)
        i == BinarySearchLoop(cmps, 0, n)
    IN [index |-> i, found |-> i < n /\ cmps[i + 1] = 0]

\* Mutant of search: the bounds are compared by their lower edge value alone.
searchByLo(bounds, t) ==
    BinarySearchFunc([k \in 1..Len(bounds) |-> Cmp(bounds[k].Lo.Value, t)])

\* span.search: the bound whose Position for t is 0.
search(bounds, t) ==
    BinarySearchFunc([k \in 1..Len(bounds) |-> Position(bounds[k], t)])

\* span.ContainsBound
ContainsBound(bounds, y) ==
    LET r == search(bounds, y.Lo.Value) IN
    IF r.found THEN Contains(bounds[r.index + 1], y) ELSE FALSE

\* What a panicking Span constructor leaves in place of a bound list.
PanicSpan == <<PanicBound>>

\* New(next, cmp, bounds...): panics when next is nil; otherwise the empty
\* span, each bound added by UnionBound.
New(next, bounds) ==
    IF next = "nil" THEN {PanicSpan} ELSE Union(next, <<>>, bounds)

\* FromBasicOrdered(s): New(nil, cmp.Compare, NewBound(true, lo, hi, true)...)
FromBasicOrdered(pairs) ==
    New("nil", [i \in 1..Len(pairs) |-> NewBound(TRUE, pairs[i][1], pairs[i][2], TRUE)])

\* Mutant of StrictBound: an excluded edge is made included where it is.
StrictBoundInPlace(x, minValue, maxValue) ==
    IF x.Lo.Included /\ x.Hi.Included THEN <<x>>
    ELSE LET nlo == x.Lo.Value
             nhi == x.Hi.Value
         IN IF Cmp(nlo, nhi) > 0 THEN <<>>
            ELSE <<NewBoundEdgesFunc(newEdge(nlo, TRUE), newEdge(nhi, TRUE))>>

\* The body of the loop of MakeStrictBounds for one bound: what is appended
\* to newBounds.
StrictBound(x, minValue, maxValue) ==
    IF x.Lo.Included /\ x.Hi.Included THEN <<x>>
    ELSE LET nlo == IF ~x.Lo.Included THEN nextInt(x.Lo.Value, maxValue) ELSE x.Lo.Value
             nhi == IF ~x.Hi.Included THEN nextInt(x.Hi.Value, minValue) ELSE x.Hi.Value
         IN IF Cmp(nlo, nhi) > 0 THEN <<>>
            ELSE <<NewBoundEdgesFunc(newEdge(nlo, TRUE), newEdge(nhi, TRUE))>>

RECURSIVE StrictLoop(_, _, _, _)
StrictLoop(bounds, n, minValue, maxValue) ==
    IF n = 0 THEN <<>>
    ELSE StrictLoop(bounds, n - 1, minValue, maxValue) \o StrictBound(bounds[n], minValue, maxValue)

\* MakeStrictBounds(s, cmp, next) with the integer successor: the set of
\* bound lists the call may return.
MakeStrictBounds(bounds) ==
    IF Len(bounds) = 0 THEN {bounds}
    ELSE New("nextInt",
             StrictLoop(bounds, Len(bounds), bounds[1].Lo.Value, bounds[Len(bounds)].Hi.Value))

\* ------------------------------------------------------------------ inputs

Vals(g) == {v \in 0..MaxVal : v % g = 0}

IsValid(x) == NewBoundEdgesFunc(x.Lo, x.Hi) # PanicBound

\* Every Bound NewBound returns for edge values of the grid.
BoundsOn(g) ==
    {x \in {NewBound(li, l, h, hi) : l \in Vals(g), h \in Vals(g), li \in BOOLEAN, hi \in BOOLEAN} :
        x # PanicBound}

IntBounds == BoundsOn(1)
DenseBounds == BoundsOn(2)
ValidBounds(g) == IF g = 1 THEN IntBounds ELSE DenseBounds

\* The Spans handed to Union and Difference: New(next, cmp, b1, b2).
SpansOn(g) ==
    UNION { New("nextInt", <<b1, b2>>) : b1 \in ValidBounds(g), b2 \in ValidBounds(g) }

IntSpans == SpansOn(1)
DenseSpans == SpansOn(2)
OtherSpans(g) == IF g = 1 THEN IntSpans ELSE DenseSpans

\* ------------------------------------------------------------------ Spec

NoBound == PanicBound

\* Two Spans that share nothing: every Span starts from its own array.
NoMem == [shared |-> FALSE, recv |-> "s"]

\* The methods of Span that return a bool instead of a Span.
Queries == {"ContainsBound"}

Init ==
    /\ s = <<>>
    /\ z = <<>>
    /\ op = "none"
    /\ arg = <<>>
    /\ grid \in {1, 2} /\ cmpf = "Compare" /\ mem = NoMem
    /\ a = NoBound /\ b = NoBound /\ c = NoBound /\ nx = "nil" /\ fn = "none" /\ out = <<>>

UnionBoundCall ==
    /\ op = "none"
    /\ \E y \in ValidBounds(grid) :
         /\ z' \in UnionBound("nextInt", s, y)
         /\ arg' = <<y>>
    /\ op' = "UnionBound"
    /\ UNCHANGED <<s, grid, cmpf, mem>>
    /\ UNCHANGED boundVars

DifferenceBoundCall ==
    /\ op = "none"
    /\ \E y \in ValidBounds(grid) :
         /\ z' = DifferenceBound(s, y)
         /\ arg' = <<y>>
    /\ op' = "DifferenceBound"
    /\ UNCHANGED <<s, grid, cmpf, mem>>
    /\ UNCHANGED boundVars

UnionCall ==
    /\ op = "none"
    /\ \E o \in OtherSpans(grid) \cup {s} :
         /\ z' \in Union("nextInt", s, o)
         /\ arg' = o
    /\ op' = "Union"
    /\ UNCHANGED <<s, grid, cmpf, mem>>
    /\ UNCHANGED boundVars

DifferenceCall ==
    /\ op = "none"
    /\ \E o \in OtherSpans(grid) \cup {s} :
         /\ z' = DifferenceSpan(s, o)
         /\ arg' = o
    /\ op' = "Difference"
    /\ UNCHANGED <<s, grid, cmpf, mem>>
    /\ UNCHANGED boundVars

\* MakeStrictBounds(s, cmp.Compare, nextInt) on an integer Span.
MakeStrictBoundsCall ==
    /\ op = "none"
    /\ grid = 1
    /\ z' \in MakeStrictBounds(s)
    /\ arg' = <<>>
    /\ op' = "MakeStrictBounds"
    /\ UNCHANGED <<s, grid, cmpf, mem>>
    /\ UNCHANGED boundVars

\* s.ContainsBound(y): a query, the Span is left as it is and the answer is
\* handed to the caller in out.
ContainsBoundCall ==
    /\ op = "none"
    /\ \E y \in ValidBounds(grid) :
         /\ out' = ContainsBound(s, y)
         /\ arg' = <<y>>
    /\ op' = "ContainsBound"
    /\ UNCHANGED <<s, z, grid, cmpf, mem>>
    /\ UNCHANGED <<a, b, c, nx, fn>>

\* The caller has read the answer of a query.
Return ==
    /\ op \in Queries
    /\ op' = "none"
    /\ arg' = <<>>
    /\ out' = <<>>
    /\ UNCHANGED <<s, z, grid, cmpf, mem>>
    /\ UNCHANGED <<a, b, c, nx, fn>>

\* s = s.UnionBound(b), z = z.DifferenceBound(b): the caller keeps the result.
Assign ==
    /\ op \notin Queries \cup {"none"}
    /\ s' = z
    /\ z' = <<>>
    /\ op' = "none"
    /\ arg' = <<>>
    /\ UNCHANGED <<grid, cmpf, mem>>
    /\ UNCHANGED boundVars

Next ==
    \/ UnionBoundCall
    \/ DifferenceBoundCall
    \/ UnionCall
    \/ DifferenceCall
    \/ MakeStrictBoundsCall
    \/ ContainsBoundCall
    \/ Return
    \/ Assign

Spec == Init /\ [][Next]_vars

\* Union-only callers: the Span is built from the empty Span by UnionBound
\* and Union calls alone.
NextUnion ==
    \/ UnionBoundCall
    \/ UnionCall
    \/ Assign

SpecUnion == Init /\ [][NextUnion]_vars

\* ------------------------------------------------------------------ SpecCmp
\* Spans built by New(next, cmp) with either comparator, then grown by
\* UnionBound alone.

InitCmp ==
    /\ s = <<>>
    /\ z = <<>>
    /\ op = "none"
    /\ arg = <<>>
    /\ grid = 1
    /\ cmpf \in {"Compare", "Sub"}
    /\ mem = NoMem
    /\ a = NoBound /\ b = NoBound /\ c = NoBound /\ nx = "nil" /\ fn = "none" /\ out = <<>>

UnionBoundOfCall ==
    /\ op = "none"
    /\ \E y \in ValidBounds(grid) :
         /\ z' = UnionBoundOf(cmpf, "nextInt", s, y)
         /\ arg' = <<y>>
    /\ op' = "UnionBound"
    /\ UNCHANGED <<s, grid, cmpf, mem>>
    /\ UNCHANGED boundVars

NextCmp ==
    \/ UnionBoundOfCall
    \/ Assign

SpecCmp == InitCmp /\ [][NextCmp]_vars

\* ------------------------------------------------------------------ SpecAlias
\* The caller keeps s and works on with the Span z a method of s returned.
\* A Span is a slice header on a backing array: s is what s.Bounds() reports,
\* z what z.Bounds() reports, mem.shared whether both headers are on one
\* array.

\* Mutant of newBoundsArray: newBounds := s.bounds[:0], the result is built in
\* the array of the receiver.
newBoundsArrayReceiver == "receiver"

\* The array UnionBound and DifferenceBound build their result in:
\* var newBounds []Bound[T] is nil, so append allocates a new one.
newBoundsArray == "fresh"

\* The array the result of a method is built in: Union and Difference start
\* from z = s and write nothing when the other Span has no bounds.
resultArray(name, x) ==
    IF name \in {"Union", "Difference"} /\ x = <<>> THEN "none" ELSE newBoundsArray

\* What a slice header reports after written was stored from the start of
\* its backing array.
overwritten(seen, written) ==
    [i \in 1..Len(seen) |-> IF i <= Len(written) THEN written[i] ELSE seen[i]]

\* The Spans a method of the Span with these bounds may return.
methodResults(name, bounds, x) ==
    CASE name = "UnionBound" -> UnionBound("nextInt", bounds, x[1])
      [] name = "DifferenceBound" -> {DifferenceBound(bounds, x[1])}
      [] name = "Union" -> Union("nextInt", bounds, x)
      [] name = "Difference" -> {DifferenceSpan(bounds, x)}

Methods == {"UnionBound", "DifferenceBound", "Union", "Difference"}

\* The arguments of a method: one Bound, or the bounds of another Span.
\* The Bounds the caller of SpecAlias uses: NewBoundII(l, h) on the integers.
AliasBounds ==
    { x \in IntBounds : x.Lo.Included /\ x.Hi.Included }

\* The Spans the caller starts from: New(nextInt, cmp.Compare, b1, b2).
AliasSpans ==
    UNION { New("nextInt", <<b1, b2>>) : b1 \in AliasBounds, b2 \in AliasBounds }

methodArgs(name) ==
    IF name \in {"UnionBound", "DifferenceBound"}
    THEN { <<y>> : y \in AliasBounds }
    ELSE {<<>>} \cup { o \in AliasSpans : Len(o) = 2 }

InitAlias ==
    /\ s \in AliasSpans
    /\ z = <<>>
    /\ op = "none"
    /\ arg = <<>>
    /\ grid = 1
    /\ cmpf = "Compare"
    /\ mem = NoMem
    /\ a = NoBound /\ b = NoBound /\ c = NoBound /\ nx = "nil" /\ fn = "none" /\ out = <<>>

\* z := s.UnionBound(b), s.DifferenceBound(b), s.Union(o) or s.Difference(o).
CallOnS ==
    /\ op = "none"
    /\ \E name \in Methods : \E x \in methodArgs(name) : \E r \in methodResults(name, s, x) :
         LET array == resultArray(name, x) IN
         /\ z' = r
         /\ s' = IF array = "receiver" THEN overwritten(s, r) ELSE s
         /\ mem' = [shared |-> array # "fresh", recv |-> "s"]
         /\ op' = name
    /\ UNCHANGED <<arg, grid, cmpf>>
    /\ UNCHANGED boundVars

\* z = z.UnionBound(b), ...: a later operation on the Span returned.
CallOnZ ==
    /\ op # "none"
    /\ \E name \in Methods : \E x \in methodArgs(name) : \E r \in methodResults(name, z, x) :
         LET array == resultArray(name, x) IN
         /\ z' = r
         /\ s' = IF array = "receiver" /\ mem.shared THEN overwritten(s, r) ELSE s
         /\ mem' = [shared |-> mem.shared /\ array # "fresh", recv |-> "z"]
         /\ op' = name
    /\ UNCHANGED <<arg, grid, cmpf>>
    /\ UNCHANGED boundVars

NextAlias ==
    \/ CallOnS
    \/ CallOnZ

SpecAlias == InitAlias /\ [][NextAlias]_vars

\* ------------------------------------------------------------------ SpecBound
\* Bound-level calls: the operands are drawn first, one function is applied.

InitBound ==
    /\ s = <<>> /\ z = <<>> /\ op = "none" /\ arg = <<>> /\ grid = 1 /\ cmpf = "Compare" /\ mem = NoMem
    /\ a \in IntBounds
    /\ b \in IntBounds
    /\ c = NoBound
    /\ nx \in {"nextInt", "nil"}
    /\ fn = "none"
    /\ out = <<>>

\* IsEdgeNear(next, cmp, lower, higher) on the upper edge of a and the lower
\* edge of b.
CallIsEdgeNear ==
    /\ fn = "none"
    /\ fn' = "IsEdgeNear"
    /\ out' = IsEdgeNear(nx, a.Hi, b.Lo)
    /\ UNCHANGED <<a, b, c, nx>>
    /\ UNCHANGED spanVars

CallUnionBounds ==
    /\ fn = "none"
    /\ fn' = "UnionBounds"
    /\ out' = UnionBounds(nx, a, b)
    /\ UNCHANGED <<a, b, c, nx>>
    /\ UNCHANGED spanVars

CallDifference ==
    /\ fn = "none"
    /\ fn' = "Difference"
    /\ out' = Difference(a, b)
    /\ UNCHANGED <<a, b, c, nx>>
    /\ UNCHANGED spanVars

CallContains ==
    /\ fn = "none"
    /\ fn' = "Contains"
    /\ out' = Contains(a, b)
    /\ UNCHANGED <<a, b, c, nx>>
    /\ UNCHANGED spanVars

CallOverlaps ==
    /\ fn = "none"
    /\ fn' = "Overlaps"
    /\ out' = Overlaps(a, b)
    /\ UNCHANGED <<a, b, c, nx>>
    /\ UNCHANGED spanVars

\* a.Position(cmp, i) for a value i of the domain: the value asked for, the
\* result and the comparator calls made are recorded.
CallPosition ==
    /\ fn = "none"
    /\ fn' = "Position"
    /\ \E i \in 0..MaxVal :
         out' = [i |-> i, pos |-> Position(a, i), calls |-> PositionCalls(a, i)]
    /\ UNCHANGED <<a, b, c, nx>>
    /\ UNCHANGED spanVars

\* NewBoundEdgesFunc(lo, hi, cmp) on the lower edge of a and the upper edge of
\* b, which need not be in order, with cmp given or nil.
CallNewBoundEdgesFunc ==
    /\ fn = "none"
    /\ fn' = "NewBoundEdgesFunc"
    /\ \E k \in {"nil", "Compare"} :
         out' = [cmp |-> k, bound |-> NewBoundEdgesFuncCmp(a.Lo, b.Hi, k)]
    /\ UNCHANGED <<a, b, c, nx>>
    /\ UNCHANGED spanVars

NextBound ==
    \/ CallNewBoundEdgesFunc
    \/ CallIsEdgeNear
    \/ CallUnionBounds
    \/ CallDifference
    \/ CallContains
    \/ CallOverlaps
    \/ CallPosition

SpecBound == InitBound /\ [][NextBound]_vars

\* ------------------------------------------------------------------ SpecParse
\* ParseBound(s, strconv.Atoi): a string is a sequence of characters.

Alphabet == {"[", "(", "]", ")", ":", "0", "1", "3"}

DigitChars == <<"0", "1", "2", "3", "4", "5", "6", "7", "8", "9">>

IsDigit(ch) == \E d \in 1..Len(DigitChars) : DigitChars[d] = ch

DigitValue(ch) == (CHOOSE d \in 1..Len(DigitChars) : DigitChars[d] = ch) - 1

RECURSIVE Decimal(_)
Decimal(str) ==
    IF str = <<>> THEN 0
    ELSE 10 * Decimal(SubSeq(str, 1, Len(str) - 1)) + DigitValue(str[Len(str)])

\* The parser the caller hands to ParseBound, strconv.Atoi on unsigned
\* decimal text: the empty string and a string with a character that is not
\* a digit are rejected with the parser's own error.
parser(str) ==
    IF str = <<>> \/ \E k \in 1..Len(str) : ~IsDigit(str[k])
    THEN [value |-> 0, err |-> "ErrSyntax"]
    ELSE [value |-> Decimal(str), err |-> "nil"]

\* strings.IndexRune(s, r): the index (from 0) of the first r in s, or -1.
IndexRune(str, r) ==
    IF \E k \in 1..Len(str) : str[k] = r
    THEN (CHOOSE k \in 1..Len(str) : str[k] = r /\ \A j \in 1..(k - 1) : str[j] # r) - 1
    ELSE -1

\* Bound[T]{}
ZeroBound == [Lo |-> newEdge(0, FALSE), Hi |-> newEdge(0, FALSE)]

\* ParseBound returns (Bound, error): the record [bound, err].
ParseBound(str) ==
    LET n == Len(str)
        divider == IndexRune(str, ":")
        lo == parser(SubSeq(str, 2, divider))
        hi == parser(SubSeq(str, divider + 2, n - 1))
    IN IF n < 5 THEN [bound |-> ZeroBound, err |-> "ErrInvalidBound"]
       ELSE IF str[1] \notin {"[", "("} THEN [bound |-> ZeroBound, err |-> "ErrInvalidBound"]
       ELSE IF str[n] \notin {"]", ")"} THEN [bound |-> ZeroBound, err |-> "ErrInvalidBound"]
       ELSE IF divider < 0 THEN [bound |-> ZeroBound, err |-> "ErrInvalidBound"]
       ELSE IF lo.err # "nil" THEN [bound |-> ZeroBound, err |-> lo.err]
       ELSE IF hi.err # "nil" THEN [bound |-> ZeroBound, err |-> hi.err]
       ELSE [bound |-> [Lo |-> newEdge(lo.value, str[1] = "["),
                        Hi |-> newEdge(hi.value, str[n] = "]")],
             err |-> "nil"]

\* fmt.Sprintf("%v", v) for a non-negative int: decimal digits, no leading
\* zero.
RECURSIVE FormatInt(_)
FormatInt(v) ==
    IF v < 10 THEN <<DigitChars[v + 1]>>
    ELSE FormatInt(v \div 10) \o <<DigitChars[(v % 10) + 1]>>

\* Mutant of boundString: the closing bracket is chosen by the lower edge.
boundStringLoFlag(lo, hi) ==
    <<IF lo.Included THEN "[" ELSE "(">>
        \o FormatInt(lo.Value) \o <<":">> \o FormatInt(hi.Value)
        \o <<IF lo.Included THEN "]" ELSE ")">>

\* boundString(lo, hi, "", 'v')
boundString(lo, hi) ==
    <<IF lo.Included THEN "[" ELSE "(">>
        \o FormatInt(lo.Value) \o <<":">> \o FormatInt(hi.Value)
        \o <<IF hi.Included THEN "]" ELSE ")">>

\* Bound.String
String(x) ==
    boundString(newEdge(x.Lo.Value, x.Lo.Included), newEdge(x.Hi.Value, x.Hi.Included))

\* Every string of at most MaxLen characters of the alphabet.
Strings == UNION { [1..n -> Alphabet] : n \in 0..MaxLen }

InitParse ==
    /\ s = <<>> /\ z = <<>> /\ op = "none" /\ grid = 1 /\ cmpf = "Compare" /\ mem = NoMem
    /\ arg \in Strings
    /\ a = NoBound /\ b = NoBound /\ c = NoBound /\ nx = "nil"
    /\ fn = "none"
    /\ out = <<>>

\* ParseBound(arg, strconv.Atoi)
ParseBoundCall ==
    /\ fn = "none"
    /\ fn' = "ParseBound"
    /\ out' = ParseBound(arg)
    /\ UNCHANGED <<a, b, c, nx>>
    /\ UNCHANGED spanVars

\* b.String() on the Bound ParseBound returned with a nil error.
StringCall ==
    /\ fn = "ParseBound"
    /\ out.err = "nil"
    /\ fn' = "String"
    /\ out' = [bound |-> out.bound, err |-> out.err, text |-> String(out.bound)]
    /\ UNCHANGED <<a, b, c, nx>>
    /\ UNCHANGED spanVars

NextParse ==
    \/ ParseBoundCall
    \/ StringCall

SpecParse == InitParse /\ [][NextParse]_vars

\* ------------------------------------------------------------------ SpecClosed
\* The closed-bound Span of src/span/span.go: every bound is [lo:hi].

\* NewBound(lo, hi) of span.go: panics when lo > hi.
closedNewBound(lo, hi) ==
    IF lo > hi THEN PanicBound
    ELSE [lo |-> lo, loIncluded |-> TRUE, hi |-> hi, hiIncluded |-> TRUE]

boundOverlaps(x, y) == ~(x.lo > y.hi \/ x.hi < y.lo)

\* Mutant of boundPosition: a value above the bound is reported as inside.
boundPositionNoHi(x, i) ==
    IF i >= x.lo THEN 0 ELSE -1

\* bound.Position(i): 1 above the bound, 0 inside, -1 below.
boundPosition(x, i) ==
    IF i >= x.lo
    THEN IF i > x.hi THEN 1 ELSE 0
    ELSE -1

\* span.search of span.go
spanSearch(bounds, value) ==
    BinarySearchFunc([k \in 1..Len(bounds) |-> -boundPosition(bounds[k], value)])

\* span.In
spanIn(bounds, v) == spanSearch(bounds, v).found

\* The merger New hands to NewWithMerger is nil: nothing is similar.
isSimilar(previousEnd, nextStart) == FALSE

\* span.Add
spanAdd(bounds, y) ==
    IF Len(bounds) = 0 THEN <<y>>
    ELSE
    LET n == Len(bounds)
        lo == spanSearch(bounds, y.lo)
        hi == spanSearch(bounds, y.hi)
        loSimilar == ~lo.found /\ lo.index > 0 /\ isSimilar(bounds[lo.index].hi, y.lo)
        loOk == lo.found \/ loSimilar
        loIndex == IF loSimilar THEN lo.index - 1 ELSE lo.index
        hiSimilar == ~hi.found /\ hi.index < n - 1 /\ isSimilar(y.hi, bounds[hi.index + 2].lo)
        hiOk == hi.found \/ hiSimilar
        hiIndex == hi.index
        bb == [lo |-> IF loOk THEN bounds[loIndex + 1].lo ELSE y.lo,
               loIncluded |-> FALSE,
               hi |-> IF hiOk THEN bounds[hiIndex + 1].hi ELSE y.hi,
               hiIncluded |-> FALSE]
        kept == Append(SubSeq(bounds, 1, loIndex), bb)
    IN IF lo.found /\ hi.found /\ lo.index = hi.index THEN bounds
       ELSE IF bb.hi < bounds[n].lo THEN kept \o SubSeq(bounds, hiIndex + 1, n)
       ELSE kept

\* The bounds handed to Add: NewBound(lo, hi) with lo <= hi.
ClosedBounds ==
    {closedNewBound(l, h) : l \in 0..MaxVal, h \in 0..MaxVal} \ {PanicBound}

\* New(): the empty Span.
InitClosed ==
    /\ s = <<>> /\ z = <<>> /\ op = "none" /\ arg = <<>> /\ grid = 1 /\ cmpf = "Compare" /\ mem = NoMem
    /\ a = NoBound /\ b = NoBound /\ c = NoBound /\ nx = "nil"
    /\ fn = "none"
    /\ out = <<>>

\* s = s.Add(y)
AddCall ==
    /\ fn = "none"
    /\ \E y \in ClosedBounds : s' = spanAdd(s, y)
    /\ UNCHANGED <<z, op, arg, grid, cmpf, mem>>
    /\ UNCHANGED boundVars

\* s.In(v): the value asked for and the answer are recorded.
InCall ==
    /\ fn = "none"
    /\ fn' = "In"
    /\ \E v \in 0..MaxVal : out' = [v |-> v, found |-> spanIn(s, v)]
    /\ UNCHANGED <<a, b, c, nx>>
    /\ UNCHANGED spanVars

NextClosed ==
    \/ AddCall
    \/ InCall

SpecClosed == InitClosed /\ [][NextClosed]_vars

\* ------------------------------------------------------------------ SpecRemove
\* Remove on the closed-bound Span of src/span/span.go.

\* span.getIndex on a Span that has bounds: the index and the
\* spanIndexPosition of value.
getIndex(bounds, value) ==
    LET n == Len(bounds)
        r == spanSearch(bounds, value)
    IN IF bounds[1].lo > value THEN [index |-> 0, pos |-> "Low"]
       ELSE IF value > bounds[n].hi THEN [index |-> n, pos |-> "High"]
       ELSE IF r.found THEN [index |-> r.index, pos |-> "Exact"]
       ELSE [index |-> r.index, pos |-> "Between"]

\* bounds[i:j] of Go: a runtime failure unless 0 <= i <= j <= len(bounds).
sliceOf(bounds, i, j) ==
    IF 0 <= i /\ i <= j /\ j <= Len(bounds) THEN SubSeq(bounds, i + 1, j) ELSE PanicSpan

\* slices.Replace(bounds, i, j, v...): bounds[i:j] is replaced by v.
Replace(bounds, i, j, v) ==
    IF 0 <= i /\ i <= j /\ j <= Len(bounds)
    THEN SubSeq(bounds, 1, i) \o v \o SubSeq(bounds, j + 1, Len(bounds))
    ELSE PanicSpan

\* append(x, y...), where building x or y has failed.
appendOf(x, y) ==
    IF x = PanicSpan \/ y = PanicSpan THEN PanicSpan ELSE x \o y

\* span.Remove, case hiPos == indexPositionHigh: y ends above the Span.
removeHigh(bounds, y, lo) ==
    IF lo.pos = "Exact"
    THEN appendOf(sliceOf(bounds, 0, lo.index - 1), <<closedNewBound(bounds[lo.index + 1].lo, y.lo)>>)
    ELSE sliceOf(bounds, 0, lo.index)

\* span.Remove, case loPos == indexPositionLow: y starts below the Span.
removeLow(bounds, y, hi) ==
    IF hi.pos = "Exact"
    THEN appendOf(<<closedNewBound(y.hi, bounds[hi.index + 1].hi)>>,
                  sliceOf(bounds, hi.index + 1, Len(bounds)))
    ELSE sliceOf(bounds, hi.index, Len(bounds))

\* span.Remove, default case: both edges of y are within the edges of the
\* Span.
removeInside(bounds, y, lo, hi) ==
    LET modified ==
            (IF lo.pos = "Exact" THEN <<closedNewBound(bounds[lo.index + 1].lo, y.lo)>> ELSE <<>>)
            \o (IF hi.pos = "Exact" THEN <<closedNewBound(y.hi, bounds[hi.index + 1].hi)>> ELSE <<>>)
        hiIndex == IF hi.pos = "Exact" THEN hi.index + 1 ELSE hi.index
    IN Replace(bounds, lo.index, hiIndex, modified)

\* A failed NewBound fails the call.
failed(result) ==
    IF \E k \in 1..Len(result) : result[k] = PanicBound THEN PanicSpan ELSE result

\* span.Remove: the bounds of the Span returned, PanicSpan for a runtime
\* failure.
spanRemove(bounds, y) ==
    IF Len(bounds) = 0 THEN <<>>
    ELSE IF y.lo = y.hi \/ isSimilar(y.lo, y.hi) THEN PanicSpan
    ELSE
    LET lo == getIndex(bounds, y.lo)
        hi == getIndex(bounds, y.hi)
    IN IF \/ hi.pos = "Low"
          \/ lo.pos = "High"
          \/ (hi.pos = "Between" /\ lo.pos = "Between" /\ lo.index = hi.index)
       THEN bounds
       ELSE IF lo.pos = "Low" /\ hi.pos = "High" THEN <<>>
       ELSE IF lo.pos = "Low" THEN failed(removeLow(bounds, y, hi))
       ELSE IF hi.pos = "High" THEN failed(removeHigh(bounds, y, lo))
       ELSE IF lo.pos = "Exact" /\ hi.pos = "Exact" /\ lo.index = hi.index
            THEN failed(Replace(bounds, lo.index, hi.index + 1,
                                <<closedNewBound(bounds[lo.index + 1].lo, y.lo),
                                  closedNewBound(y.hi, bounds[lo.index + 1].hi)>>))
       ELSE failed(removeInside(bounds, y, lo, hi))

\* Remove has a pointer receiver: what s.bounds holds after the call.  A
\* failed call and the call that returns a new empty Span leave it alone.
receiverAfterRemove(bounds, y) ==
    LET r == spanRemove(bounds, y)
        lo == getIndex(bounds, y.lo)
        hi == getIndex(bounds, y.hi)
    IN IF Len(bounds) = 0 \/ r = PanicSpan THEN bounds
       ELSE IF lo.pos = "Low" /\ hi.pos = "High" THEN bounds
       ELSE r

\* The closed-bound Spans over 0..MaxVal whose list is sorted and has no
\* value in two bounds: New(b1, b2, ...) with the bounds in ascending order.
RECURSIVE SortedFrom(_)
SortedFrom(from) ==
    {<<>>} \cup
    UNION { { <<closedNewBound(p[1], p[2])>> \o rest : rest \in SortedFrom(p[2] + 1) } :
            p \in { q \in (from..MaxVal) \X (from..MaxVal) : q[1] <= q[2] } }

SortedSpans == SortedFrom(0)

InitRemove ==
    /\ s \in SortedSpans
    /\ z = <<>> /\ op = "none" /\ arg = <<>> /\ grid = 1 /\ cmpf = "Compare" /\ mem = NoMem
    /\ a = NoBound /\ b = NoBound /\ c = NoBound /\ nx = "nil"
    /\ fn = "none"
    /\ out = <<>>

\* z := s.Remove(NewBound(l, h)) with l < h
RemoveCall ==
    /\ op = "none"
    /\ \E l \in 0..MaxVal : \E h \in (l + 1)..MaxVal :
         LET y == closedNewBound(l, h) IN
         /\ z' = spanRemove(s, y)
         /\ s' = receiverAfterRemove(s, y)
         /\ arg' = <<y>>
    /\ op' = "Remove"
    /\ UNCHANGED <<grid, cmpf, mem>>
    /\ UNCHANGED boundVars

SpecRemove == InitRemove /\ [][RemoveCall]_vars

\* ------------------------------------------------------------------ SpecBoth
\* One sequence of closed bounds handed to both implementations: s is the
\* closed-bound Span built by New and Add, z the edge-aware Span with
\* next = nil and cmp.Compare that UnionBound is folded over.

InitBoth ==
    /\ s = <<>> /\ z = <<>> /\ op = "none" /\ arg = <<>> /\ grid = 1 /\ cmpf = "Compare" /\ mem = NoMem
    /\ a = NoBound /\ b = NoBound /\ c = NoBound /\ nx = "nil"
    /\ fn = "none"
    /\ out = <<>>

\* s = s.Add(NewBound(l, h)) and z = z.UnionBound(NewBoundII(l, h))
AddBoth ==
    /\ \E l \in 0..MaxVal : \E h \in l..MaxVal :
         /\ s' = spanAdd(s, closedNewBound(l, h))
         /\ z' \in UnionBound("nil", z, NewBound(TRUE, l, h, TRUE))
    /\ UNCHANGED <<op, arg, grid, cmpf, mem>>
    /\ UNCHANGED boundVars

SpecBoth == InitBoth /\ [][AddBoth]_vars

\* ------------------------------------------------------------------ SpecNew
\* New(next, cmp, a, b, c): three bounds are drawn and the Span is built.

BoundCode(x) ==
    ((x.Lo.Value * (MaxVal + 1) + x.Hi.Value) * 2 + (IF x.Lo.Included THEN 1 ELSE 0)) * 2
        + (IF x.Hi.Included THEN 1 ELSE 0)

\* One representative of every multiset {a, b, c} is drawn; the orders in which
\* the three bounds can be handed to New are those of Orders.
InitNew ==
    /\ s = <<>> /\ z = <<>> /\ op = "none" /\ arg = <<>>
    /\ grid \in {1, 2} /\ cmpf = "Compare" /\ mem = NoMem
    /\ a \in ValidBounds(grid)
    /\ b \in ValidBounds(grid)
    /\ c \in ValidBounds(grid)
    /\ BoundCode(a) <= BoundCode(b)
    /\ BoundCode(b) <= BoundCode(c)
    /\ nx = "nextInt"
    /\ fn = "none"
    /\ out = <<>>

NewCall ==
    /\ fn = "none"
    /\ fn' = "New"
    /\ out' \in New(nx, <<a, b, c>>)
    /\ UNCHANGED <<a, b, c, nx>>
    /\ UNCHANGED spanVars

\* New(nil, cmp, a, b, c): the caller hands no successor.
NewNoSuccessorCall ==
    /\ fn = "none"
    /\ fn' = "NewNoSuccessor"
    /\ out' \in New("nil", <<a, b, c>>)
    /\ UNCHANGED <<a, b, c, nx>>
    /\ UNCHANGED spanVars

\* FromBasicOrdered on the [lo, hi] pairs of a, b and c.
FromBasicOrderedCall ==
    /\ fn = "none"
    /\ fn' = "FromBasicOrdered"
    /\ out' \in FromBasicOrdered(<< <<a.Lo.Value, a.Hi.Value>>,
                                     <<b.Lo.Value, b.Hi.Value>>,
                                     <<c.Lo.Value, c.Hi.Value>> >>)
    /\ UNCHANGED <<a, b, c, nx>>
    /\ UNCHANGED spanVars

NextNew ==
    \/ NewCall
    \/ NewNoSuccessorCall
    \/ FromBasicOrderedCall

SpecNew == InitNew /\ [][NextNew]_vars

\* ------------------------------------------------------------------ claims

\* The Span the last public operation returned (the Span held, when no call
\* is pending).
Current == IF op \in Queries \cup {"none"} THEN s ELSE z

IsSortedStrict(seq) ==
    \A i \in 1..Len(seq) : \A j \in 1..Len(seq) :
        i < j => Cmp(seq[i].Lo.Value, seq[j].Lo.Value) < 0

NoOverlap(seq) ==
    \A i \in 1..Len(seq) : \A j \in 1..Len(seq) :
        i # j => ~Overlaps(seq[i], seq[j])

NoMergeable(next, seq) ==
    \A i \in 1..Len(seq) : \A j \in 1..Len(seq) :
        i # j => ~UnionBounds(next, seq[i], seq[j]).ok

\* C1: over the integers, after any sequence of UnionBound, DifferenceBound,
\* Union and Difference calls with valid bounds, Bounds() is strictly
\* ascending by lower-edge value and no two of its bounds overlap.
C1_SortedDisjoint ==
    grid = 1 => IsSortedStrict(Current) /\ NoOverlap(Current)

C1_Witness ==
    /\ grid = 1
    /\ op = "DifferenceBound"
    /\ Len(s) >= 2
    /\ Len(z) > Len(s)

\* C2: over the integers, after every public mutating operation (unions and
\* differences alike) no two bounds of Bounds() are coalescible: UnionBounds
\* returns ok = false for every pair of distinct bounds.
C2_AlwaysMerged ==
    grid = 1 => NoMergeable("nextInt", Current)

\* C3: a Span built from the empty Span by unions alone (integer or dense
\* domain) has no two bounds that UnionBounds would merge.
C3_CanonicalAfterUnion ==
    NoMergeable("nextInt", Current)

C3_Witness ==
    /\ op = "UnionBound"
    /\ Len(s) >= 2
    /\ Len(z) = 1
    /\ \A i \in 1..Len(s) : ~Contains(arg[1], s[i])

\* ---- Bound-level claims (SpecBound)

Closed(l, h) == NewBound(TRUE, l, h, TRUE)

\* C7: for edges lower, higher with lower.Value <= higher.Value, IsEdgeNear is
\* true exactly when the values are equal and an edge is included, or a
\* successor is given, both edges are included and no domain value lies
\* strictly between them.  Over the integers [1:2] and [3:4] unite to [1:4];
\* [1:2] with (3:4], [1:2) with [3:4] and [1:2) with (2:3] stay separate.
C7_AdjacencyRule ==
    /\ (fn = "IsEdgeNear" /\ a.Hi.Value <= b.Lo.Value) =>
          (out <=>
              \/ a.Hi.Value = b.Lo.Value /\ (a.Hi.Included \/ b.Lo.Included)
              \/ /\ nx # "nil"
                 /\ a.Hi.Included
                 /\ b.Lo.Included
                 /\ ~\E v \in 0..MaxVal : a.Hi.Value < v /\ v < b.Lo.Value)
    /\ fn = "UnionBounds" =>
          /\ UnionBounds("nextInt", Closed(1, 2), Closed(3, 4)) = [bound |-> Closed(1, 4), ok |-> TRUE]
          /\ ~UnionBounds("nextInt", Closed(1, 2), NewBound(FALSE, 3, 4, TRUE)).ok
          /\ ~UnionBounds("nextInt", NewBound(TRUE, 1, 2, FALSE), Closed(3, 4)).ok
          /\ ~UnionBounds("nextInt", NewBound(TRUE, 1, 2, FALSE), NewBound(FALSE, 2, 3, TRUE)).ok

C7_Witness ==
    /\ fn = "IsEdgeNear"
    /\ nx = "nextInt"
    /\ a.Hi.Value + 1 = b.Lo.Value
    /\ a.Hi.Included /\ b.Lo.Included
    /\ out = TRUE

\* The facing edges of x and y are near: the upper edge of the lower bound and
\* the lower edge of the upper one.
FacingNear(next, x, y) ==
    \/ Cmp(x.Hi.Value, y.Lo.Value) <= 0 /\ IsEdgeNear(next, x.Hi, y.Lo)
    \/ Cmp(y.Hi.Value, x.Lo.Value) <= 0 /\ IsEdgeNear(next, y.Hi, x.Lo)

\* The lesser (greater) of two edges by value; on equal values the edge is
\* included when either is.
LowerEdge(x, y) ==
    IF x.Value < y.Value THEN x
    ELSE IF y.Value < x.Value THEN y
    ELSE [Value |-> x.Value, Included |-> x.Included \/ y.Included]

UpperEdge(x, y) ==
    IF x.Value > y.Value THEN x
    ELSE IF y.Value > x.Value THEN y
    ELSE [Value |-> x.Value, Included |-> x.Included \/ y.Included]

\* C8: UnionBounds(next, cmp, a, b) on valid bounds returns ok = true iff a
\* contains b, b contains a, they overlap or their facing edges are near; the
\* merged bound runs from the lesser lower edge to the greater upper edge
\* (closed wins on equal values) and is the same for (a, b) and (b, a).
C8_UnionBoundsRule ==
    fn = "UnionBounds" =>
        /\ out.ok <=> (Contains(a, b) \/ Contains(b, a) \/ Overlaps(a, b) \/ FacingNear(nx, a, b))
        /\ out.ok = UnionBounds(nx, b, a).ok
        /\ out.ok =>
              /\ out.bound = [Lo |-> LowerEdge(a.Lo, b.Lo), Hi |-> UpperEdge(a.Hi, b.Hi)]
              /\ out.bound = UnionBounds(nx, b, a).bound

C8_Witness ==
    /\ fn = "UnionBounds"
    /\ out.ok
    /\ ~Contains(a, b) /\ ~Contains(b, a) /\ ~Overlaps(a, b)
    /\ a.Lo.Value > b.Hi.Value

\* Interval semantics: the points of the line are the edge values and the
\* open gaps between neighbouring values.  Point 2v is the value v and point
\* 2v+1 lies strictly between v and v+1; Scaled(x) is the bound x on that line.
Scaled(x) ==
    [Lo |-> newEdge(2 * x.Lo.Value, x.Lo.Included), Hi |-> newEdge(2 * x.Hi.Value, x.Hi.Included)]

Points == 0..(2 * MaxVal)

InBound(x, p) == Position(Scaled(x), p) = 0

InSome(seq, p) == \E i \in 1..Len(seq) : InBound(seq[i], p)

\* C9: for all valid bounds a, b, a.Difference(b) is at most two valid bounds,
\* ascending and mutually non-overlapping, holding exactly the points of a
\* that are not in b; it is empty iff b contains a and is [a] when a and b
\* do not overlap.
C9_DifferenceExact ==
    fn = "Difference" =>
        /\ Len(out) <= 2
        /\ \A i \in 1..Len(out) : IsValid(out[i])
        /\ IsSortedStrict(out)
        /\ NoOverlap(out)
        /\ \A p \in Points : InSome(out, p) <=> (InBound(a, p) /\ ~InBound(b, p))
        /\ (out = <<>>) <=> Contains(b, a)
        /\ ~Overlaps(a, b) => out = <<a>>

C9_Witness ==
    /\ fn = "Difference"
    /\ Len(out) = 2
    /\ a.Lo.Value = b.Lo.Value
    /\ a.Hi.Value = b.Hi.Value

\* ---- Span-level claims on single calls

Canonical(next, seq) == IsSortedStrict(seq) /\ NoOverlap(seq) /\ NoMergeable(next, seq)

\* C5: for every Span s built by unions, s.Union(s) has the bounds of s, edge
\* for edge and in the same order.
C5_UnionIdempotent ==
    (op = "Union" /\ arg = s) => z = s

C5_Witness ==
    /\ op = "Union"
    /\ arg = s
    /\ Len(s) >= 2
    /\ \E i \in 1..Len(s) : ~s[i].Lo.Included

InInt(seq, v) == \E i \in 1..Len(seq) : Position(seq[i], v) = 0

\* C6: for every canonical integer Span s and valid bound y, an integer lies
\* in a bound of s.UnionBound(y) iff it lies in a bound of s or in y.
C6_UnionBoundValues ==
    (grid = 1 /\ op = "UnionBound" /\ Canonical("nextInt", s)) =>
        \A v \in 0..MaxVal : InInt(z, v) <=> (InInt(s, v) \/ Position(arg[1], v) = 0)

\* UnionBound coalesced the new bound with a bound one step below it.
C6_Witness ==
    /\ grid = 1
    /\ op = "UnionBound"
    /\ Canonical("nextInt", s)
    /\ Len(z) = Len(s)
    /\ \E i \in 1..Len(s) :
         /\ s[i].Hi.Value + 1 = arg[1].Lo.Value
         /\ s[i].Hi.Included /\ arg[1].Lo.Included
    /\ \E v \in 0..MaxVal : ~InInt(z, v)

\* What DifferenceBound leaves of one bound x of the Span.
Remainder(x, y) ==
    IF Contains(y, x) THEN <<>>
    ELSE IF Overlaps(x, y) THEN Difference(x, y)
    ELSE <<x>>

RECURSIVE Remainders(_, _, _)
Remainders(seq, y, n) ==
    IF n = 0 THEN <<>> ELSE Remainders(seq, y, n - 1) \o Remainder(seq[n], y)

\* DifferenceBound applied for the first n bounds of o, in order.
RECURSIVE FoldDifference(_, _, _)
FoldDifference(seq, o, n) ==
    IF n = 0 THEN seq ELSE DifferenceBound(FoldDifference(seq, o, n - 1), o[n])

\* C10: for a sorted, non-overlapping Span s and valid bound y,
\* s.DifferenceBound(y) holds exactly the points of s not in y: bounds y
\* contains are dropped, overlapping ones replaced by their Difference pieces,
\* the others kept; s.Difference(o) is DifferenceBound folded over o's bounds.
C10_DifferenceBoundExact ==
    /\ (op = "DifferenceBound" /\ IsSortedStrict(s) /\ NoOverlap(s)) =>
          /\ \A p \in Points : InSome(z, p) <=> (InSome(s, p) /\ ~InBound(arg[1], p))
          /\ z = Remainders(s, arg[1], Len(s))
    /\ (op = "Difference" /\ IsSortedStrict(s) /\ NoOverlap(s)) =>
          /\ \A p \in Points : InSome(z, p) <=> (InSome(s, p) /\ ~InSome(arg, p))
          /\ z = FoldDifference(s, arg, Len(arg))

C10_Witness ==
    /\ op = "DifferenceBound"
    /\ Len(s) >= 3
    /\ Contains(arg[1], s[2])
    /\ Overlaps(s[1], arg[1]) /\ ~Contains(arg[1], s[1])
    /\ Overlaps(s[3], arg[1]) /\ ~Contains(arg[1], s[3])
    /\ Len(z) = 2

\* ---- Order of unions (SpecNew)

Orders == { [i \in 1..3 |-> <<a, b, c>>[p[i]]] : p \in Permutations(1..3) }

\* C4: folding UnionBound over the bounds a, b, c from the empty Span gives
\* the same bound list, edge for edge, in whatever order they are taken;
\* Union(Union(x,y),w) = Union(x,Union(y,w)) and Union(x,y) = Union(y,x).
C4_UnionOrderIndependent ==
    fn = "New" =>
        \A l \in Orders :
            /\ New(nx, l) = {out}
            /\ UNION { Union(nx, sx, r) : sx \in New(nx, <<l[1]>>), r \in New(nx, <<l[2], l[3]>>) } = {out}
            /\ New(nx, <<l[1], l[2]>>) = New(nx, <<l[2], l[1]>>)
            /\ Cardinality(New(nx, <<l[1], l[2]>>)) = 1

\* Three bounds of which the outer two only meet through the middle one.
C4_Witness ==
    /\ fn = "New"
    /\ Len(out) = 1
    /\ \E l \in Orders :
         /\ ~UnionBounds(nx, l[1], l[3]).ok
         /\ ~Overlaps(l[1], l[2]) /\ ~Overlaps(l[2], l[3])
         /\ ~l[2].Lo.Included

\* ---- Difference then union (Spec)

\* IsEqual(a, b Span): the same number of bounds, equal bound for bound.
IsEqual(x, y) ==
    /\ Len(x) = Len(y)
    /\ \A i \in 1..Len(x) : x[i] = y[i]

\* C11: over the integers, for every canonical Span s and valid bound y that
\* one bound of s Contains, s.DifferenceBound(y).UnionBound(y) IsEqual s,
\* whatever the inclusion flags of y's edges.
C11_DifferenceUnionInverse ==
    (/\ grid = 1
     /\ op = "DifferenceBound"
     /\ Canonical("nextInt", s)
     /\ \E i \in 1..Len(s) : Contains(s[i], arg[1])) =>
        \A r \in UnionBound("nextInt", z, arg[1]) : IsEqual(r, s)

\* An open bound is cut out of a bound of a two-bound Span, which it splits.
C11_Witness ==
    /\ grid = 1
    /\ op = "DifferenceBound"
    /\ Canonical("nextInt", s)
    /\ Len(s) = 2
    /\ \E i \in 1..Len(s) : Contains(s[i], arg[1])
    /\ ~arg[1].Lo.Included /\ ~arg[1].Hi.Included
    /\ Len(z) = 3
    /\ \A r \in UnionBound("nextInt", z, arg[1]) : IsEqual(r, s)

\* ---- Bound predicates (SpecBound)

\* The lower edge of y is not before the lower edge of x: a greater value, or
\* the same value with x's edge included or both edges excluded.
LoNotBefore(x, y) ==
    \/ y.Lo.Value > x.Lo.Value
    \/ y.Lo.Value = x.Lo.Value /\ (x.Lo.Included \/ (~x.Lo.Included /\ ~y.Lo.Included))

HiNotAfter(x, y) ==
    \/ y.Hi.Value < x.Hi.Value
    \/ y.Hi.Value = x.Hi.Value /\ (x.Hi.Included \/ (~x.Hi.Included /\ ~y.Hi.Included))

\* C12: for valid bounds a, b, a.Contains(cmp, b) is true iff every point of b
\* is a point of a (interval semantics), iff b's lower edge is not before a's
\* and b's upper edge is not after a's; [1:2] contains (1:2) and (1:2) does
\* not contain [1:2].
C12_ContainsRule ==
    fn = "Contains" =>
        /\ out <=> \A p \in Points : InBound(b, p) => InBound(a, p)
        /\ out <=> (LoNotBefore(a, b) /\ HiNotAfter(a, b))
        /\ Contains(Closed(1, 2), NewBound(FALSE, 1, 2, FALSE))
        /\ ~Contains(NewBound(FALSE, 1, 2, FALSE), Closed(1, 2))

\* a and b have the same edge values and a contains b only through its flags.
C12_Witness ==
    /\ fn = "Contains"
    /\ out = TRUE
    /\ a.Lo.Value = b.Lo.Value /\ a.Hi.Value = b.Hi.Value
    /\ a.Lo.Included /\ ~b.Lo.Included
    /\ ~a.Hi.Included /\ ~b.Hi.Included
    /\ ~Contains(b, a)

\* C13: for all validated integer bounds a, b, a.Overlaps(cmp, b) is true iff
\* some integer v has a.Position(v) = 0 and b.Position(v) = 0.
C13_OverlapsSharedInteger ==
    fn = "Overlaps" =>
        (out <=> \E v \in 0..MaxVal : Position(a, v) = 0 /\ Position(b, v) = 0)

\* C14: for valid bounds a, b, a.Contains(cmp, b) implies a.Overlaps(cmp, b)
\* and b.Overlaps(cmp, a).
C14_ContainsImpliesOverlaps ==
    (fn = "Contains" /\ out = TRUE) => (Overlaps(a, b) /\ Overlaps(b, a))

\* The contained bound is a single point on an edge of the containing one.
C14_Witness ==
    /\ fn = "Contains"
    /\ out = TRUE
    /\ b.Lo.Value = b.Hi.Value
    /\ a.Hi.Value = b.Lo.Value
    /\ a.Lo.Value < a.Hi.Value
    /\ Overlaps(a, b) /\ Overlaps(b, a)

\* C15: for a valid bound a and a value v, a.Position(cmp, v) is +1 iff v is
\* before a (v < lo, or v = lo with lo excluded), -1 iff v is after a (v > hi,
\* or v = hi with hi excluded) and 0 iff v is in a; at most two comparator
\* calls are made; Position is 0 exactly when a Contains [v:v].
C15_PositionRule ==
    fn = "Position" =>
        LET v == out.i
            before == v < a.Lo.Value \/ (v = a.Lo.Value /\ ~a.Lo.Included)
            after == v > a.Hi.Value \/ (v = a.Hi.Value /\ ~a.Hi.Included)
        IN /\ out.pos \in {-1, 0, 1}
           /\ out.pos = 1 <=> before
           /\ out.pos = -1 <=> after
           /\ out.pos = 0 <=> (~before /\ ~after)
           /\ Len(out.calls) <= 2
           /\ out.pos = 0 <=> Contains(a, Closed(v, v))

\* The value asked for is the excluded upper edge of the bound.
C15_Witness ==
    /\ fn = "Position"
    /\ out.i = a.Hi.Value
    /\ ~a.Hi.Included
    /\ out.pos = -1
    /\ ~Contains(a, Closed(out.i, out.i))

\* ---- Queries on a Span (Spec)

\* C16: for every canonical Span s and valid bound y, s.ContainsBound(y) is
\* true iff some single bound of s Contains y, also when y's excluded lower
\* edge has the value of an excluded lower edge of a bound of s.
C16_ContainsBoundRule ==
    (op = "ContainsBound" /\ Canonical("nextInt", s)) =>
        (out <=> \E i \in 1..Len(s) : Contains(s[i], arg[1]))

\* ---- Membership in a closed-bound Span (SpecClosed)

ClosedSorted(seq) ==
    \A i \in 1..Len(seq) : \A j \in 1..Len(seq) :
        i < j => (seq[i].lo < seq[j].lo /\ ~boundOverlaps(seq[i], seq[j]))

\* The Span {[0:9],[a:z]} of TestIn, by character codes.
DigitsLetters == spanAdd(spanAdd(<<>>, closedNewBound(48, 57)), closedNewBound(97, 122))

\* C17: for a Span whose bounds are sorted and do not overlap, In(v) is true
\* iff v lies inside some bound; {[0:9],[a:z]} holds '1' and 'b' and not '@';
\* the empty Span holds no value.
C17_InRule ==
    fn = "In" =>
        /\ ClosedSorted(s) =>
              (out.found <=> \E k \in 1..Len(s) : s[k].lo <= out.v /\ out.v <= s[k].hi)
        /\ s = <<>> => ~out.found
        /\ spanIn(DigitsLetters, 49) /\ spanIn(DigitsLetters, 98) /\ ~spanIn(DigitsLetters, 64)

\* The value lies between the first and the second bound of the Span.
C17_Witness ==
    /\ fn = "In"
    /\ ClosedSorted(s)
    /\ Len(s) >= 2
    /\ s[1].hi < out.v /\ out.v < s[2].lo
    /\ ~out.found

\* ---- Construction of a Bound (SpecBound)

\* The edges lo, hi cannot make a Bound: lo is above hi, or they have the same
\* value and one of them is excluded.
NoValuesInside(lo, hi) ==
    \/ lo.Value > hi.Value
    \/ lo.Value = hi.Value /\ (~lo.Included \/ ~hi.Included)

\* C18: NewBoundEdgesFunc, NewBoundEdges and NewBound panic exactly when
\* cmp(lo, hi) > 0, or cmp(lo, hi) = 0 and an edge is excluded, or cmp is nil;
\* otherwise the Bound returned has exactly the edges given.
C18_ConstructionRule ==
    fn = "NewBoundEdgesFunc" =>
        LET lo == a.Lo
            hi == b.Hi
        IN /\ out.bound = PanicBound <=> (out.cmp = "nil" \/ NoValuesInside(lo, hi))
           /\ out.bound # PanicBound => out.bound = [Lo |-> lo, Hi |-> hi]
           /\ NewBoundEdges(lo, hi) = PanicBound <=> NoValuesInside(lo, hi)
           /\ NewBoundEdges(lo, hi) # PanicBound => NewBoundEdges(lo, hi) = [Lo |-> lo, Hi |-> hi]
           /\ NewBound(lo.Included, lo.Value, hi.Value, hi.Included) = NewBoundEdges(lo, hi)

\* A half-open bound on a single value is refused.
C18_Witness ==
    /\ fn = "NewBoundEdgesFunc"
    /\ out.cmp = "Compare"
    /\ a.Lo.Value = b.Hi.Value
    /\ a.Lo.Included /\ ~b.Hi.Included
    /\ out.bound = PanicBound

\* ---- Parsing a Bound (SpecParse)

\* The text between the opening bracket and the first ':' and the text
\* between that ':' and the closing bracket.
LoText(str) == SubSeq(str, 2, IndexRune(str, ":"))
HiText(str) == SubSeq(str, IndexRune(str, ":") + 2, Len(str) - 1)

Malformed(str) ==
    \/ Len(str) < 5
    \/ str[1] \notin {"[", "("}
    \/ str[Len(str)] \notin {"]", ")"}
    \/ IndexRune(str, ":") < 0
    \/ parser(LoText(str)).err # "nil"
    \/ parser(HiText(str)).err # "nil"

\* C19: for every malformed input (fewer than 5 characters, a wrong first or
\* last character, no ':', or a lo/hi text the parser rejects) ParseBound
\* returns the zero Bound together with ErrInvalidBound.
C19_ParseErrorContract ==
    (fn = "ParseBound" /\ Malformed(arg)) =>
        (out.bound = ZeroBound /\ out.err = "ErrInvalidBound")

\* C20: every Bound ParseBound returns with a nil error satisfies the Bound
\* invariant (lo <= hi, and lo = hi only with both edges included); "[3:1]"
\* and "(1:1)" are not returned as Bounds.
C20_ParsedBoundValid ==
    (fn = "ParseBound" /\ out.err = "nil") => IsValid(out.bound)

\* ---- Parse and format (SpecParse)

\* The canonical text of an int: digits, no leading zero unless it is "0".
IsCanonicalText(str) ==
    /\ str # <<>>
    /\ \A k \in 1..Len(str) : IsDigit(str[k])
    /\ Len(str) > 1 => str[1] # "0"

\* <'[' or '('> lo ':' hi <']' or ')'> with lo and hi in canonical text form.
WellFormed(str) ==
    /\ Len(str) >= 5
    /\ str[1] \in {"[", "("}
    /\ str[Len(str)] \in {"]", ")"}
    /\ IndexRune(str, ":") >= 0
    /\ IsCanonicalText(LoText(str))
    /\ IsCanonicalText(HiText(str))

\* C21: for every syntactically valid bound string whose lo and hi are in
\* canonical text form, ParseBound succeeds and the String of the Bound it
\* returns is the string itself: brackets follow the inclusion flags and lo
\* and hi are not swapped.
C21_ParseFormatRoundTrip ==
    /\ (fn = "ParseBound" /\ WellFormed(arg)) => out.err = "nil"
    /\ (fn = "String" /\ WellFormed(arg)) =>
          /\ out.text = arg
          /\ out.bound.Lo.Included <=> arg[1] = "["
          /\ out.bound.Hi.Included <=> arg[Len(arg)] = "]"

\* A half-open text whose lo is above its hi comes back unchanged.
C21_Witness ==
    /\ fn = "String"
    /\ WellFormed(arg)
    /\ arg[1] = "(" /\ arg[Len(arg)] = "]"
    /\ out.bound.Lo.Value > out.bound.Hi.Value
    /\ out.text = arg

\* ---- Construction without a successor (SpecNew)

\* C22: New with a comparator and next = nil succeeds and yields a Span in
\* which only overlapping or touching bounds are coalesced; FromBasicOrdered
\* returns a Span for every list of valid [lo, hi] pairs.
C22_SuccessorOptional ==
    fn \in {"NewNoSuccessor", "FromBasicOrdered"} =>
        /\ out # PanicSpan
        /\ NoMergeable("nil", out)
        /\ \A p \in Points :
              InSome(out, p) <=>
                  IF fn = "NewNoSuccessor"
                  THEN InBound(a, p) \/ InBound(b, p) \/ InBound(c, p)
                  ELSE \E x \in {a, b, c} : InBound(Closed(x.Lo.Value, x.Hi.Value), p)

\* ---- No operation fails on valid values (Spec)

AllValid(seq) == \A i \in 1..Len(seq) : IsValid(seq[i])

\* C23: on bounds made by NewBoundEdges and Spans made by New and the Span
\* operations, no call fails: every bound of every Span returned is a Bound
\* NewBoundEdgesFunc accepted, and so is every bound UnionBounds and
\* Difference build for a bound of the Span and the argument; ContainsBound
\* returns a bool.
C23_Total ==
    /\ AllValid(Current)
    /\ op \in {"UnionBound", "DifferenceBound"} =>
          \A i \in 1..Len(s) :
              /\ IsValid(UnionBounds("nextInt", s[i], arg[1]).bound)
              /\ IsValid(UnionBounds("nextInt", arg[1], s[i]).bound)
              /\ AllValid(Difference(s[i], arg[1]))
              /\ AllValid(Difference(arg[1], s[i]))
    /\ op = "ContainsBound" => out \in BOOLEAN
    /\ op = "MakeStrictBounds" => z # PanicSpan

\* A bound is removed that has both edge values in common with a bound of
\* the Span and differs from it in both flags.
C23_Witness ==
    /\ op = "DifferenceBound"
    /\ \E i \in 1..Len(s) :
         /\ s[i].Lo.Value = arg[1].Lo.Value /\ s[i].Hi.Value = arg[1].Hi.Value
         /\ s[i].Lo.Included /\ ~arg[1].Lo.Included
         /\ s[i].Hi.Included /\ ~arg[1].Hi.Included
    /\ Len(z) = Len(s) + 1
    /\ AllValid(z)

\* ---- MakeStrictBounds (Spec)

HasInteger(x) == \E v \in 0..MaxVal : Position(x, v) = 0

\* The bound x with each excluded edge moved one step towards its inside.
Inward(x) ==
    [Lo |-> newEdge(IF x.Lo.Included THEN x.Lo.Value ELSE x.Lo.Value + 1, TRUE),
     Hi |-> newEdge(IF x.Hi.Included THEN x.Hi.Value ELSE x.Hi.Value - 1, TRUE)]

\* C24: for every canonical integer Span s, every bound of
\* MakeStrictBounds(s, cmp, next) has both edges included and an integer lies
\* in the result iff it lies in s; a bound with an integer inside is kept,
\* its excluded edges moved one step inwards, and only bounds without an
\* integer are dropped.
C24_MakeStrictBoundsRule ==
    (op = "MakeStrictBounds" /\ Canonical("nextInt", s)) =>
        /\ \A j \in 1..Len(z) : z[j].Lo.Included /\ z[j].Hi.Included
        /\ \A v \in 0..MaxVal : InInt(z, v) <=> InInt(s, v)
        /\ \A i \in 1..Len(s) :
              HasInteger(s[i]) => \E j \in 1..Len(z) : z[j] = Inward(s[i])
        /\ Len(z) = Cardinality({i \in 1..Len(s) : HasInteger(s[i])})

\* One bound is dropped, another has both of its excluded edges moved.
C24_Witness ==
    /\ op = "MakeStrictBounds"
    /\ Canonical("nextInt", s)
    /\ Len(s) = 2
    /\ Len(z) = 1
    /\ ~s[2].Lo.Included /\ ~s[2].Hi.Included
    /\ z[1] = Inward(s[2])

\* ---- UnionBounds without a merge (SpecBound)

\* The bound with the lower position in the order.
Smaller(x, y) == IF Cmp(x.Lo.Value, y.Lo.Value) <= 0 THEN x ELSE y

\* C25 as stated: when no merge is possible UnionBounds returns ok = false
\* together with the smaller of the two bounds, whichever was passed first.
C25_ReturnsSmaller ==
    (fn = "UnionBounds" /\ ~out.ok) => out.bound = Smaller(a, b)

\* C25 as amended: when no merge is possible UnionBounds returns ok = false
\* together with its first bound argument, unchanged, so that the bound
\* returned follows the order of the arguments.
C25_ReturnsFirst ==
    (fn = "UnionBounds" /\ ~out.ok) =>
        /\ out.bound = a
        /\ UnionBounds(nx, b, a) = [bound |-> b, ok |-> FALSE]

\* The first argument lies above the second and is the one returned.
C25_Witness ==
    /\ fn = "UnionBounds"
    /\ ~out.ok
    /\ a.Lo.Value > b.Hi.Value
    /\ out.bound = a
    /\ out.bound # Smaller(a, b)

\* C26: UnionBound keeps the bound list sorted for every comparator that
\* honours the three-way contract by sign, not only for cmp.Compare: after
\* s.UnionBound(b) on a sorted s the returned list is ascending by lower-edge
\* value, also when b belongs before existing bounds.
C26_SortedAnyComparator ==
    (op = "UnionBound" /\ IsSortedStrict(s)) => IsSortedStrict(z)

C28_AddSortedDisjoint ==
    \A i \in 1..(Len(s) - 1) :
        /\ s[i].lo < s[i + 1].lo
        /\ s[i].hi < s[i + 1].lo

\* C29: for every sequence of closed bounds, the closed-bound Span built by
\* New and Add and the edge-aware Span built by UnionBound with next = nil hold
\* the same (lo, hi) pairs in the same order, and every edge of the edge-aware
\* Span is included.
C29_SameLists ==
    /\ [k \in 1..Len(s) |-> <<s[k].lo, s[k].hi>>]
         = [k \in 1..Len(z) |-> <<z[k].Lo.Value, z[k].Hi.Value>>]
    /\ \A k \in 1..Len(z) : z[k].Lo.Included /\ z[k].Hi.Included

\* Some bound of the closed-bound list holds v.
Covered(bounds, v) ==
    \E k \in 1..Len(bounds) : bounds[k].lo <= v /\ v <= bounds[k].hi

\* C30: for every sorted non-overlapping closed-bound Span s and every y with
\* y.lo < y.hi, s.Remove(y) returns without a runtime failure, and the Span
\* returned holds exactly the values of s that are not strictly between y.lo
\* and y.hi.
C30_RemoveOpenInterval ==
    [][op' = "Remove" =>
         /\ z' # PanicSpan
         /\ \A v \in 0..MaxVal :
              Covered(z', v) <=> (Covered(s, v) /\ ~(arg'[1].lo < v /\ v < arg'[1].hi))]_vars

====
